---- MODULE Spec2Model ----
(***************************************************************************)
(* A model of the LC3 virtual machine of badlydrawnrod/LC3:                *)
(*   - the instruction engine lc3::VmCore (LC3.h),                         *)
(*   - the host classes Lc3Vm (main.cpp) and Lc3C (Lc3C.h, Lc3C.cpp) that  *)
(*     supply memory, the keyboard registers and the trap handler,         *)
(*   - the blocking wrapper VmState (VmState.h, VmState.cpp),              *)
(*   - the multi-instance scheduler loop of main (main.cpp).               *)
(* Words are 16 bits wide: every word computation is reduced mod 2^16.     *)
(***************************************************************************)
EXTENDS Integers, Sequences, FiniteSets, TLC

(***************************************************************************)
(* 16-bit words and bit operations.                                        *)
(***************************************************************************)
WordMod == 65536

W16(x) == x % WordMod

RECURSIVE BitAnd(_, _)
BitAnd(a, b) ==
    IF a = 0 \/ b = 0 THEN 0
    ELSE (a % 2) * (b % 2) + 2 * BitAnd(a \div 2, b \div 2)

RECURSIVE BitOr(_, _)
BitOr(a, b) ==
    IF a = 0 THEN b
    ELSE IF b = 0 THEN a
    ELSE (IF (a % 2) + (b % 2) > 0 THEN 1 ELSE 0) + 2 * BitOr(a \div 2, b \div 2)

\* a & ~b, for operands of any one width.
RECURSIVE BitAndNot(_, _)
BitAndNot(a, b) ==
    IF a = 0 THEN 0
    ELSE (a % 2) * (1 - (b % 2)) + 2 * BitAndNot(a \div 2, b \div 2)

Shr(x, n) == x \div (2 ^ n)

Shl(x, n) == x * (2 ^ n)

\* ~x on a uint16_t operand, stored back into a uint16_t.
Not16(x) == (WordMod - 1) - x

(***************************************************************************)
(* Program constants.                                                      *)
(***************************************************************************)
PC_START == 12288

MR_KBSR == 65024

MR_KBDR == 65026

FLAG_POS == 1

FLAG_ZERO == 2

FLAG_NEG == 4

OP_BR == 0

OP_ADD == 1

OP_LD == 2

OP_ST == 3

OP_JSR == 4

OP_AND == 5

OP_LDR == 6

OP_STR == 7

OP_RTI == 8

OP_NOT == 9

OP_LDI == 10

OP_STI == 11

OP_JMP == 12

OP_RES == 13

OP_LEA == 14

OP_TRAP == 15

TRAP_GETC == 32

TRAP_OUT == 33

TRAP_PUTS == 34

TRAP_IN == 35

TRAP_PUTSP == 36

TRAP_HALT == 37

\* The per-turn tick budget of the scheduler and of the blocking wrapper.
maxTicks == 1000

\* [Esc], the key that cycles console ownership.
KEY_ESC == 27

(***************************************************************************)
(* lc3::State, a variant of Stopped, Running and Trapped{trap}.            *)
(***************************************************************************)
Stopped == [tag |-> "Stopped", trap |-> 0]

Running == [tag |-> "Running", trap |-> 0]

Trapped(t) == [tag |-> "Trapped", trap |-> t]

IsRunning(state) == state.tag = "Running"

IsStopped(state) == state.tag = "Stopped"

IsTrapped(state) == state.tag = "Trapped"

(***************************************************************************)
(* Memory: 65536 words, zero-initialised.  It is kept as a function on the *)
(* addresses that hold a non-zero word; every other address holds 0.       *)
(***************************************************************************)
EmptyMem == [a \in {} |-> 0]

MemAt(mem, a) == IF a \in DOMAIN mem THEN mem[a] ELSE 0

MemPut(mem, a, v) ==
    LET dom == IF v = 0 THEN (DOMAIN mem) \ {a} ELSE (DOMAIN mem) \cup {a}
    IN  [x \in dom |-> IF x = a THEN v ELSE mem[x]]

(***************************************************************************)
(* The machine: the fields of VmCore (state_, reg_, pc_, cond_) and of the *)
(* host class (mem_, key_).                                                *)
(***************************************************************************)
Regs == 0..7

ZeroRegs == [r \in Regs |-> 0]

\* Lc3Vm() / Lc3C value-initialised: zeroed storage, then the default member
\* initialisers; a default-constructed variant holds its first alternative.
NewMachine ==
    [state |-> Stopped, reg |-> ZeroRegs, pc |-> PC_START, cond |-> 0,
     mem |-> EmptyMem, key |-> 0]

\* A plausible slip: the flags are left as they are.
Reset_KeepsFlags(m) ==
    [m EXCEPT !.pc = PC_START, !.reg = ZeroRegs, !.state = Running]

Reset(m) ==
    [m EXCEPT !.pc = PC_START, !.cond = 0, !.reg = ZeroRegs, !.state = Running]

GetState(m) == m.state

\* A plausible slip: the keyboard always reports a key.
HasKey_Always(m) == TRUE

HasKey(m) == m.key # 0

SetKey(m, k) == [m EXCEPT !.key = k]

\* GetKey returns key_ and clears it: the value is m.key, the machine after
\* the call is GetKeyM(m).
GetKeyM(m) == [m EXCEPT !.key = 0]

WriteMem(m, address, val) == [m EXCEPT !.mem = MemPut(m.mem, address, val)]

\* ReadMem returns a word and may change mem_ and key_: [m, val].
ReadMem(m, address) ==
    LET m1 == IF address = MR_KBSR
              THEN IF HasKey(m)
                   THEN LET s == WriteMem(m, MR_KBSR, Shl(1, 15))
                        IN  GetKeyM(WriteMem(s, MR_KBDR, s.key))
                   ELSE WriteMem(m, MR_KBSR, 0)
              ELSE m
    IN  [m |-> m1, val |-> MemAt(m1.mem, address)]

(***************************************************************************)
(* Instruction decoding.  A mask with 2^n - 1 is written as % 2^n.         *)
(***************************************************************************)
\* A plausible slip: the field is taken as an unsigned number.
SignExtend_Unsigned(x, bitCount) == x

\* x |= (0xffff << bitCount) sets bits bitCount..15 of the 16-bit result and
\* keeps the bits below bitCount.
SignExtend(x, bitCount) ==
    IF Shr(x, bitCount - 1) % 2 # 0
    THEN (x % (2 ^ bitCount)) + (WordMod - (2 ^ bitCount))
    ELSE x

IsImmediate(instr) == Shr(instr, 5) % 2 # 0

IsLong(instr) == Shr(instr, 11) % 2 # 0

Cond(instr) == Shr(instr, 9) % 8

Dr(instr) == Shr(instr, 9) % 8

Sr1(instr) == Shr(instr, 6) % 8

Sr2(instr) == instr % 8

Sr(instr) == Shr(instr, 9) % 8

BaseR(instr) == Shr(instr, 6) % 8

Imm5(instr) == SignExtend(instr % 32, 5)

Offset6(instr) == SignExtend(instr % 64, 6)

PcOffset9(instr) == SignExtend(instr % 512, 9)

PcOffset11(instr) == SignExtend(instr % 2048, 11)

\* A plausible slip: a zero result is taken for a positive one.
UpdateFlags_NoZero(m, r) ==
    IF Shr(m.reg[r], 15) # 0 THEN [m EXCEPT !.cond = FLAG_NEG]
    ELSE [m EXCEPT !.cond = FLAG_POS]

UpdateFlags(m, r) ==
    IF m.reg[r] = 0 THEN [m EXCEPT !.cond = FLAG_ZERO]
    ELSE IF Shr(m.reg[r], 15) # 0 THEN [m EXCEPT !.cond = FLAG_NEG]
    ELSE [m EXCEPT !.cond = FLAG_POS]

(***************************************************************************)
(* Opcodes.                                                                *)
(***************************************************************************)
OpAdd(m, instr) ==
    LET dr == Dr(instr)
        sr1 == Sr1(instr)
        v == IF IsImmediate(instr)
             THEN W16(m.reg[sr1] + Imm5(instr))
             ELSE W16(m.reg[sr1] + m.reg[Sr2(instr)])
    IN  UpdateFlags([m EXCEPT !.reg[dr] = v], dr)

OpAnd(m, instr) ==
    LET dr == Dr(instr)
        sr1 == Sr1(instr)
        v == IF IsImmediate(instr)
             THEN BitAnd(m.reg[sr1], Imm5(instr))
             ELSE BitAnd(m.reg[sr1], m.reg[Sr2(instr)])
    IN  UpdateFlags([m EXCEPT !.reg[dr] = v], dr)

OpNot(m, instr) ==
    LET dr == Dr(instr)
        sr1 == Sr1(instr)
    IN  UpdateFlags([m EXCEPT !.reg[dr] = Not16(m.reg[sr1])], dr)

\* A plausible slip: an empty condition mask never branches, as in the LC-3
\* architecture.
OpBr_MaskOnly(m, instr) ==
    IF BitAnd(Cond(instr), m.cond) # 0
    THEN [m EXCEPT !.pc = W16(m.pc + PcOffset9(instr))]
    ELSE m

OpBr(m, instr) ==
    LET pcOffset9 == PcOffset9(instr)
        cond == Cond(instr)
    IN  IF cond = 0 \/ BitAnd(cond, m.cond) # 0
        THEN [m EXCEPT !.pc = W16(m.pc + pcOffset9)]
        ELSE m

OpJmp(m, instr) == [m EXCEPT !.pc = m.reg[BaseR(instr)]]

\* A plausible slip: the base register is read before the link is written.
OpJsr_LinkLast(m, instr) ==
    LET target == IF IsLong(instr)
                  THEN W16(m.pc + PcOffset11(instr))
                  ELSE m.reg[BaseR(instr)]
    IN  [m EXCEPT !.reg[7] = m.pc, !.pc = target]

OpJsr(m, instr) ==
    LET m1 == [m EXCEPT !.reg[7] = m.pc]
    IN  IF IsLong(instr)
        THEN [m1 EXCEPT !.pc = W16(m1.pc + PcOffset11(instr))]
        ELSE [m1 EXCEPT !.pc = m1.reg[BaseR(instr)]]

OpLd(m, instr) ==
    LET dr == Dr(instr)
        r == ReadMem(m, W16(m.pc + PcOffset9(instr)))
    IN  UpdateFlags([r.m EXCEPT !.reg[dr] = r.val], dr)

OpLdi(m, instr) ==
    LET dr == Dr(instr)
        r1 == ReadMem(m, W16(m.pc + PcOffset9(instr)))
        r2 == ReadMem(r1.m, r1.val)
    IN  UpdateFlags([r2.m EXCEPT !.reg[dr] = r2.val], dr)

OpLdr(m, instr) ==
    LET dr == Dr(instr)
        r == ReadMem(m, W16(m.reg[BaseR(instr)] + Offset6(instr)))
    IN  UpdateFlags([r.m EXCEPT !.reg[dr] = r.val], dr)

OpLea(m, instr) ==
    LET dr == Dr(instr)
    IN  UpdateFlags([m EXCEPT !.reg[dr] = W16(m.pc + PcOffset9(instr))], dr)

OpSt(m, instr) ==
    WriteMem(m, W16(m.pc + PcOffset9(instr)), m.reg[Sr(instr)])

OpSti(m, instr) ==
    LET r == ReadMem(m, W16(m.pc + PcOffset9(instr)))
    IN  WriteMem(r.m, r.val, r.m.reg[Sr(instr)])

OpStr(m, instr) ==
    WriteMem(m, W16(m.reg[BaseR(instr)] + Offset6(instr)), m.reg[Sr(instr)])

(***************************************************************************)
(* VmCore::Run.                                                            *)
(***************************************************************************)
\* The word the next loop iteration fetches, ReadMem(pc_++).
Fetch(m) == ReadMem(m, m.pc)

\* case OP_TRAP.
OpTrap(m, instr) == [m EXCEPT !.state = Trapped(instr)]

\* A plausible slip: an unimplemented opcode is skipped.
OpIllegal_Skips(m) == m

\* case OP_RES, case OP_RTI and default.
OpIllegal(m) == [m EXCEPT !.state = Stopped]

\* The switch of the loop body, on the machine after the fetch.
Dispatch(m, instr) ==
    LET op == Shr(instr, 12)
    IN  CASE op = OP_ADD -> OpAdd(m, instr)
          [] op = OP_AND -> OpAnd(m, instr)
          [] op = OP_NOT -> OpNot(m, instr)
          [] op = OP_BR -> OpBr(m, instr)
          [] op = OP_JMP -> OpJmp(m, instr)
          [] op = OP_JSR -> OpJsr(m, instr)
          [] op = OP_LD -> OpLd(m, instr)
          [] op = OP_LDI -> OpLdi(m, instr)
          [] op = OP_LDR -> OpLdr(m, instr)
          [] op = OP_LEA -> OpLea(m, instr)
          [] op = OP_ST -> OpSt(m, instr)
          [] op = OP_STI -> OpSti(m, instr)
          [] op = OP_STR -> OpStr(m, instr)
          [] op = OP_TRAP -> OpTrap(m, instr)
          [] OTHER -> OpIllegal(m)

\* One iteration of the loop body: fetch, advance pc_, dispatch.
Step(m) ==
    LET f == Fetch(m)
    IN  Dispatch([f.m EXCEPT !.pc = W16(m.pc + 1)], f.val)

\* The loop of Run for a budget n >= 0:
\*   while (Running && ticks != 0) { --ticks; <body> }
\* that is, n iterations of the body, cut short when the state leaves Running.
\* The n iterations are split in halves to keep the evaluation shallow.
RECURSIVE RunTicks(_, _)
RunTicks(m, n) ==
    IF n = 0 \/ ~IsRunning(m.state) THEN m
    ELSE IF n = 1 THEN Step(m)
    ELSE RunTicks(RunTicks(m, n \div 2), n - (n \div 2))

\* The loop of Run for a negative budget, which is never decremented:
\*   while (Running) { <body> }
RECURSIVE RunForever(_)
RunForever(m) ==
    IF IsRunning(m.state) THEN RunForever(RunTicks(m, maxTicks)) ELSE m

Run(m, ticks) == IF ticks < 0 THEN RunForever(m) ELSE RunTicks(m, ticks)

(***************************************************************************)
(* The trap handler, Lc3Vm::Trap (main.cpp) and Lc3C::Trap (Lc3C.cpp): the *)
(* two are the same code.  The handler is given the trap instruction and   *)
(* switches on its low byte.                                               *)
(***************************************************************************)
\* A plausible slip: the instruction is not masked.
TrapVector_WholeWord(instr) == instr

TrapVector(instr) == instr % 256

\* static_cast<uint16_t>(c) for char c = GetKey(): the key is cut to a byte;
\* whether char is signed is the build's choice.
CharToWord(k, charSigned) ==
    LET b == k % 256
    IN  IF charSigned /\ b >= 128 THEN W16(b - 256) ELSE b

Trap(m, instr, charSigned) ==
    LET v == TrapVector(instr)
        m0 == [m EXCEPT !.state = Running]
    IN  CASE v = TRAP_GETC -> [GetKeyM(m0) EXCEPT !.reg[0] = m0.key]
          [] v = TRAP_IN -> [GetKeyM(m0) EXCEPT !.reg[0] = CharToWord(m0.key, charSigned)]
          [] v = TRAP_HALT -> [m0 EXCEPT !.state = Stopped]
          [] OTHER -> m0

\* PUTS and PUTSP walk a pointer from mem_ + reg_[0] until it finds a zero
\* word, with no test for the end of mem_.  A string with no zero word up to
\* 0xFFFF makes the walk read the storage that follows mem_, which is
\* undefined behaviour: what is read there is for the build to decide.
\* beyond stands for the words found after mem_, as far as the walk goes;
\* the word after the last of them reads as zero.
\*
\* The choices for the storage that follows mem_ of machine m: key_ first,
\* as the class declares it, alone or followed by another word; or, for a
\* build that lays the object out otherwise, some other word or a zero.
BeyondMem(m) ==
    {<<m.key>>, <<>>}
        \cup {<<m.key, w>> : w \in {66, 16963}}
        \cup {<<w>> : w \in {66, 16963}}

\* The word the walk reads at mem_ + a, for a >= 0.
WalkWord(mem, a, beyond) ==
    IF a < WordMod THEN MemAt(mem, a)
    ELSE IF a - WordMod + 1 <= Len(beyond) THEN beyond[a - WordMod + 1]
    ELSE 0

\* The bytes putc is given by the word string at address a (PUTS).
RECURSIVE PutsBytes(_, _, _)
PutsBytes(mem, a, beyond) ==
    IF WalkWord(mem, a, beyond) = 0 THEN <<>>
    ELSE <<WalkWord(mem, a, beyond) % 256>> \o PutsBytes(mem, a + 1, beyond)

\* The bytes putc is given by the byte-packed string at address a (PUTSP).
RECURSIVE PutspBytes(_, _, _)
PutspBytes(mem, a, beyond) ==
    IF WalkWord(mem, a, beyond) = 0 THEN <<>>
    ELSE LET char1 == WalkWord(mem, a, beyond) % 256
             char2 == Shr(WalkWord(mem, a, beyond), 8)
         IN  <<char1>> \o (IF char2 # 0 THEN <<char2>> ELSE <<>>)
                      \o PutspBytes(mem, a + 1, beyond)

\* "Enter a character: "
PromptBytes ==
    <<69, 110, 116, 101, 114, 32, 97, 32, 99, 104, 97, 114, 97, 99, 116, 101,
      114, 58, 32>>

\* "HALT" and the line end puts adds.
HaltBytes == <<72, 65, 76, 84, 10>>

\* What a call of Trap writes to stdout, given the words that follow mem_.
TrapOutput(m, instr, beyond) ==
    LET v == TrapVector(instr)
    IN  CASE v = TRAP_OUT -> <<m.reg[0] % 256>>
          [] v = TRAP_PUTS -> PutsBytes(m.mem, m.reg[0], beyond)
          [] v = TRAP_IN -> PromptBytes \o <<m.key % 256>>
          [] v = TRAP_PUTSP -> PutspBytes(m.mem, m.reg[0], beyond)
          [] v = TRAP_HALT -> HaltBytes
          [] OTHER -> <<>>

\* Everything a call of Trap can write to stdout: one sequence of bytes,
\* unless a string runs past the end of mem_.
TrapOutputs(m, instr) == {TrapOutput(m, instr, b) : b \in BeyondMem(m)}

IsInputTrap(instr) == TrapVector(instr) \in {TRAP_GETC, TRAP_IN}

IsOutputTrap(instr) == TrapVector(instr) \in {TRAP_OUT, TRAP_PUTS, TRAP_PUTSP}

(***************************************************************************)
(* Program images.  An image file is a byte stream: the origin, then the   *)
(* words, each with its high byte first.  ReadImage reads the file into    *)
(* uint16_t storage as the machine lays it out (low byte first) and swaps  *)
(* the bytes of every word read.                                           *)
(***************************************************************************)
UINT16_MAX == 65535

Swap16(x) == W16(BitOr(Shl(x, 8), Shr(x, 8)))

\* The uint16_t that fread stores for the file's k-th pair of bytes.
FileWord(bytes, k) == bytes[2 * k - 1] + 256 * bytes[2 * k]

Min(a, b) == IF a < b THEN a ELSE b

\* fread stores read words at mem_ + origin and the loop swaps each of them.
\* read <= UINT16_MAX - origin, so the addresses do not wrap.
StoreWords(mem, bytes, origin, read) ==
    LET loaded == [a \in origin..(origin + read - 1) |->
                      Swap16(FileWord(bytes, (a - origin) + 2))]
        dom == ((DOMAIN mem) \ (DOMAIN loaded))
                   \cup {a \in DOMAIN loaded : loaded[a] # 0}
    IN  [a \in dom |-> IF a \in DOMAIN loaded THEN loaded[a] ELSE mem[a]]

\* ReadImage(FILE*), for a file of at least one word and a whole number of words.
ReadImage(m, bytes) ==
    LET origin == Swap16(FileWord(bytes, 1))
        max_read == UINT16_MAX - origin
        read == Min(max_read, (Len(bytes) \div 2) - 1)
    IN  [m EXCEPT !.mem = StoreWords(m.mem, bytes, origin, read)]

\* The bytes of a sequence of words, each with its high byte first.
WordBytes(words) ==
    [i \in 1..(2 * Len(words)) |->
        IF i % 2 = 1 THEN words[(i + 1) \div 2] \div 256
        ELSE words[i \div 2] % 256]

\* The image file an assembler writes for the words of a program at origin.
ImageFile(origin, words) == WordBytes(<<origin>> \o words)

(***************************************************************************)
(* The scheduler of main (main.cpp): its state.                            *)
(***************************************************************************)
VARIABLES
    vms,            \* std::vector<VmState>: [lc3, isBlockedOnInput, isBlockedOnOutput]
    consoleOwner,   \* index of the VM that owns the console
    key,            \* the key polled and not yet handed to a VM, 0 if none
    running,        \* number of VMs counted as live
    index,          \* position of the for loop over vms
    mpc,            \* position of main: "poll", "turn" or "done"
    polled,         \* what the last poll read from _getch, 0 if it read nothing
    console,        \* the call of Trap made in the last step: [writer, instr, bytes]
    charSigned,     \* whether the build's char is signed
    \* a single machine driven through its public methods:
    em,             \* the machine
    epc,            \* "idle", or "run" while a call of Run is in its loop
    ecall,          \* the call of Run in progress or just returned:
                    \* [budget, ticks, executed, start, ops]
    elast,          \* the last operation on the machine: [op, instr]
    \* a single blocking wrapper driven through its public methods:
    ws,             \* the VmState object: [lc3, blocked]
    wlast           \* the last operation on the wrapper: [op, ret, trapCalled, ran]

schedVars == <<vms, consoleOwner, key, running, index, mpc, polled, console>>

engineVars == <<em, epc, ecall, elast>>

wrapVars == <<ws, wlast>>

vars == <<schedVars, engineVars, wrapVars, charSigned>>

\* Number of image files on the command line.
NumVms == 2

VmIds == 0..(NumVms - 1)

\* The programs the images hold, as words placed at PC_START.
ProgHalt == <<61477>>                            \* HALT

\* ADD R0,R0,#1; GETC; OUT; IN; HALT
ProgInput == <<4129, 61472, 61473, 61475, 61477>>

ProgOutLoop == <<61473, 510>>                    \* OUT; BR #-2

ProgSpin == <<511>>                              \* BR #-1

\* LEA R0,#2; PUTS; reserved opcode; "Hi"
ProgPuts == <<57346, 61474, 53248, 72, 105>>

Programs == <<ProgHalt, ProgInput, ProgOutLoop, ProgSpin, ProgPuts>>

\* The keys _getch can return.
Keys == {KEY_ESC, 233}

\* main, lines 227-242: a VM is constructed, reset and given its image.
LoadedVm(words) ==
    [lc3 |-> ReadImage(Reset(NewMachine), ImageFile(PC_START, words)),
     isBlockedOnInput |-> FALSE,
     isBlockedOnOutput |-> FALSE]

NoConsole == [writer |-> -1, instr |-> 0, bytes |-> <<>>]

\* An operation on the wrapper other than a turn: it returns nothing, calls
\* no trap handler and runs no engine.
NoOp(op) == [op |-> op, ret |-> TRUE, trapCalled |-> FALSE, ran |-> FALSE]

NoCall ==
    [budget |-> 0, ticks |-> 0, executed |-> 0, start |-> NewMachine, ops |-> 0]

\* The values of the variables of a part of the model that a specification
\* does not use.
SchedUnused ==
    /\ vms = <<>>
    /\ consoleOwner = 0
    /\ key = 0
    /\ running = 0
    /\ index = 0
    /\ mpc = "unused"
    /\ polled = 0
    /\ console = NoConsole

EngineUnused ==
    /\ em = NewMachine
    /\ epc = "unused"
    /\ ecall = NoCall
    /\ elast = [op |-> "none", instr |-> 0]

WrapUnused ==
    /\ ws = [lc3 |-> NewMachine, blocked |-> 0]
    /\ wlast = NoOp("none")

SchedInit ==
    /\ \E choice \in [VmIds -> 1..Len(Programs)] :
           vms = [i \in VmIds |-> LoadedVm(Programs[choice[i]])]
    /\ consoleOwner = 0
    /\ key = 0
    /\ running = NumVms
    /\ index = 0
    /\ mpc = "poll"
    /\ polled = 0
    /\ console = NoConsole
    /\ charSigned \in BOOLEAN
    /\ EngineUnused
    /\ WrapUnused

(***************************************************************************)
(* The body of the for loop over vms (main.cpp lines 272-332) for one VM,  *)
(* as a function of the VM, whether it owns the console and the key that   *)
(* is available.  The result names the VM after its turn, whether the key  *)
(* was consumed, whether Trap was called and whether running is decreased. *)
(***************************************************************************)
\* Line 262: [Esc] cycles console ownership.  A plausible slip: any key does.
IsCycleKey_AnyKey(k) == k # 0

IsCycleKey(k) == k = KEY_ESC

\* A plausible slip: the key goes to the first VM that takes a turn.
KeyGoesTo_Anyone(isOwner, availableKey) == availableKey # 0

\* Lines 277-284: the owner is told the key.
KeyGoesTo(isOwner, availableKey) == isOwner /\ availableKey # 0

\* A plausible slip: a trap is fulfilled whoever owns the console.
FulfilsTrap_Anyone(state, isOwner) == IsTrapped(state)

\* Lines 286-288: the trap of a trapped VM is fulfilled in this turn.
FulfilsTrap(state, isOwner) == IsTrapped(state) /\ isOwner

\* Lines 305-324: the blocked flags after Run has returned state.
Classify(vm, state) ==
    IF ~IsTrapped(state) THEN vm
    ELSE IF IsInputTrap(state.trap) THEN [vm EXCEPT !.isBlockedOnInput = TRUE]
    ELSE IF IsOutputTrap(state.trap) THEN [vm EXCEPT !.isBlockedOnOutput = TRUE]
    ELSE vm

\* A plausible slip: a VM that is not Running is counted as gone.
CountsAsStopped_NotRunning(state) == ~IsRunning(state)

\* Lines 328-331.
CountsAsStopped(state) == IsStopped(state)

\* A plausible slip: the pending key is one slot shared by all the VMs.
PutVm_SharedKey(all, i, vm) ==
    [j \in DOMAIN all |->
        IF j = i THEN vm ELSE [all[j] EXCEPT !.lc3.key = vm.lc3.key]]

\* Lines 270-272: the loop body works on a reference to its own element of
\* vms, each of which holds its own machine.
PutVm(all, i, vm) == [all EXCEPT ![i] = vm]

\* A plausible slip: Run is the else branch of the trap's fulfilment.
RunsInTurn_NotAfterTrap(state, fulfilled) == IsRunning(state) /\ ~fulfilled

\* Line 301: Run is called in this turn if the state is Running, be it the
\* state GetState returned or the state Trap has just returned.
RunsInTurn(state, fulfilled) == IsRunning(state)

Turn(vm, isOwner, availableKey, cs) ==
    LET state0 == GetState(vm.lc3)
    IN  IF IsStopped(state0)
        THEN [vm |-> vm, keyUsed |-> FALSE, trapCalled |-> FALSE, stopped |-> FALSE]
        ELSE
        LET keyUsed == KeyGoesTo(isOwner, availableKey)
            vm1 == IF keyUsed
                   THEN [vm EXCEPT !.lc3 = SetKey(vm.lc3, availableKey)]
                   ELSE vm
            fulfil == FulfilsTrap(state0, isOwner)
            vm2 == IF fulfil
                   THEN [vm1 EXCEPT
                           !.isBlockedOnInput =
                               IF vm1.isBlockedOnInput /\ availableKey # 0
                               THEN FALSE ELSE vm1.isBlockedOnInput,
                           !.isBlockedOnOutput = FALSE,
                           !.lc3 = Trap(vm1.lc3, state0.trap, cs)]
                   ELSE vm1
            state1 == IF fulfil THEN vm2.lc3.state ELSE state0
            runs == RunsInTurn(state1, fulfil)
            vm3 == IF runs
                   THEN LET ran == Run(vm2.lc3, maxTicks)
                        IN  Classify([vm2 EXCEPT !.lc3 = ran], ran.state)
                   ELSE vm2
            state2 == IF runs THEN vm3.lc3.state ELSE state1
        IN  [vm |-> vm3, keyUsed |-> keyUsed, trapCalled |-> fulfil,
             stopped |-> CountsAsStopped(state2)]

(***************************************************************************)
(* The scheduler's actions.                                                *)
(***************************************************************************)
\* Lines 257-269: the loop condition has held; the keyboard is polled unless a
\* key is still waiting; k = 0 stands for _kbhit() answering no.
Poll ==
    /\ mpc = "poll"
    /\ \E k \in Keys \cup {0} :
          /\ polled' = IF key = 0 THEN k ELSE 0
          /\ IF key = 0 /\ k # 0
             THEN IF IsCycleKey(k)
                  THEN /\ consoleOwner' = (consoleOwner + 1) % NumVms
                       /\ key' = 0
                  ELSE /\ key' = k
                       /\ consoleOwner' = consoleOwner
             ELSE UNCHANGED <<key, consoleOwner>>
    /\ index' = 0
    /\ mpc' = "turn"
    /\ console' = NoConsole
    /\ UNCHANGED <<vms, running, charSigned, engineVars, wrapVars>>

\* Lines 270-334: one iteration of the for loop.
SchedTurn ==
    /\ mpc = "turn"
    /\ index < NumVms
    /\ \E t \in {Turn(vms[index], consoleOwner = index, key, charSigned)} :
           /\ vms' = PutVm(vms, index, t.vm)
           /\ key' = IF t.keyUsed THEN 0 ELSE key
           /\ running' = IF t.stopped THEN running - 1 ELSE running
           /\ IF t.trapCalled
              THEN \E bytes \in TrapOutputs(
                       IF t.keyUsed THEN SetKey(vms[index].lc3, key)
                       ELSE vms[index].lc3,
                       vms[index].lc3.state.trap) :
                       console' = [writer |-> index,
                                   instr |-> vms[index].lc3.state.trap,
                                   bytes |-> bytes]
              ELSE console' = NoConsole
    /\ index' = index + 1
    /\ polled' = 0
    /\ UNCHANGED <<consoleOwner, mpc, charSigned, engineVars, wrapVars>>

\* Line 257: the for loop is over and the loop condition is tested.
EndRound ==
    /\ mpc = "turn"
    /\ index = NumVms
    /\ mpc' = IF running > 0 THEN "poll" ELSE "done"
    /\ polled' = 0
    /\ console' = NoConsole
    /\ UNCHANGED <<vms, consoleOwner, key, running, index, charSigned,
                   engineVars, wrapVars>>

SchedNext == Poll \/ SchedTurn \/ EndRound

Spec == SchedInit /\ [][SchedNext]_vars

(***************************************************************************)
(* A single machine driven through the public methods of Lc3Vm / Lc3C:     *)
(* Reset, Run, Trap and SetKey.  A call of Run is followed through its     *)
(* loop, one iteration per step.                                           *)
(***************************************************************************)
\* Largest budget Run is called with; budgets are -1..MaxBudget.
MaxBudget == 6

\* A call of Run is followed for at most this many iterations.
MaxExecuted == 8

\* Number of calls the host makes on the machine.
MaxOps == 3

Budgets == (-1)..MaxBudget

\* One instruction of every opcode, and more of some, for the slot of
\* EngineProgram.
SampleInstrs ==
    { 6210,     \* 0x1842 ADD R4,R1,R2
      6305,     \* 0x18A1 ADD R4,R2,#1
      22624,    \* 0x5860 AND R4,R1,#0
      22594,    \* 0x5842 AND R4,R1,R2
      39039,    \* 0x987F NOT R4,R1
      3585,     \* 0x0E01 BRnzp #1
      1025,     \* 0x0401 BRz #1
      1,        \* 0x0001 BR #1 with an empty condition mask
      49344,    \* 0xC0C0 JMP R3
      18433,    \* 0x4801 JSR #1
      16576,    \* 0x40C0 JSRR R3
      10243,    \* 0x2803 LD R4,#3
      43012,    \* 0xA804 LDI R4,#4
      26818,    \* 0x68C2 LDR R4,R3,#2
      59903,    \* 0xE9FF LEA R4,#-1
      12805,    \* 0x3205 ST R1,#5
      45572,    \* 0xB204 STI R1,#4
      29377,    \* 0x72C1 STR R1,R3,#1
      61472,    \* 0xF020 TRAP GETC
      61473,    \* 0xF021 TRAP OUT
      61475,    \* 0xF023 TRAP IN
      61477,    \* 0xF025 TRAP HALT
      61440,    \* 0xF000 TRAP with a vector outside the table
      32768,    \* 0x8000 RTI
      53248 }   \* 0xD000 reserved

\* LD R2,#6; ADD R1,R1,#-1; LEA R3,#4; <slot>; HALT; reserved;
\* data: 0x7FFF, 0x3009, 0x8001.
EngineProgram(slot) ==
    <<9222, 4735, 58884, slot, 61477, 53248, 32767, 12297, 32769>>

\* The instructions Trap is called with.
TrapInstrs == {61473, 61477}

EngineInit ==
    /\ \E slot \in SampleInstrs :
          em = ReadImage(Reset(NewMachine), ImageFile(PC_START, EngineProgram(slot)))
    /\ epc = "idle"
    /\ ecall = NoCall
    /\ elast = [op |-> "none", instr |-> 0]
    /\ charSigned \in BOOLEAN
    /\ SchedUnused
    /\ WrapUnused

\* The loop condition of Run.
LoopCond(m, ticks) == IsRunning(m.state) /\ ticks # 0

\* A plausible slip: the budget is never spent.
NextTicks_Unspent(ticks) == ticks

\* if (ticks > 0) { --ticks; }
NextTicks(ticks) == IF ticks > 0 THEN ticks - 1 ELSE ticks

EngineCallRun ==
    /\ epc = "idle"
    /\ ecall.ops < MaxOps
    /\ \E t \in Budgets :
          ecall' = [budget |-> t, ticks |-> t, executed |-> 0, start |-> em,
                    ops |-> ecall.ops + 1]
    /\ epc' = "run"
    /\ elast' = [op |-> "call", instr |-> 0]
    /\ UNCHANGED <<em, charSigned, schedVars, wrapVars>>

EngineStep ==
    /\ epc = "run"
    /\ LoopCond(em, ecall.ticks)
    /\ ecall.executed < MaxExecuted
    /\ em' = Step(em)
    /\ ecall' = [ecall EXCEPT !.ticks = NextTicks(ecall.ticks),
                              !.executed = ecall.executed + 1]
    /\ elast' = [op |-> "step", instr |-> Fetch(em).val]
    /\ UNCHANGED <<epc, charSigned, schedVars, wrapVars>>

EngineReturn ==
    /\ epc = "run"
    /\ ~LoopCond(em, ecall.ticks)
    /\ epc' = "idle"
    /\ elast' = [op |-> "return", instr |-> 0]
    /\ UNCHANGED <<em, ecall, charSigned, schedVars, wrapVars>>

EngineReset ==
    /\ epc = "idle"
    /\ ecall.ops < MaxOps
    /\ em' = Reset(em)
    /\ ecall' = [NoCall EXCEPT !.ops = ecall.ops + 1]
    /\ elast' = [op |-> "reset", instr |-> 0]
    /\ UNCHANGED <<epc, charSigned, schedVars, wrapVars>>

\* The host fulfils the trap the machine is in, or calls Trap with an
\* instruction of its own choice.
EngineTrap ==
    /\ epc = "idle"
    /\ ecall.ops < MaxOps
    /\ \E instr \in TrapInstrs \cup
                     (IF IsTrapped(em.state) THEN {em.state.trap} ELSE {}) :
          /\ em' = Trap(em, instr, charSigned)
          /\ elast' = [op |-> "trap", instr |-> instr]
    /\ ecall' = [NoCall EXCEPT !.ops = ecall.ops + 1]
    /\ UNCHANGED <<epc, charSigned, schedVars, wrapVars>>

EngineSetKey ==
    /\ epc = "idle"
    /\ ecall.ops < MaxOps
    /\ \E k \in Keys \ {KEY_ESC} :
          em' = SetKey(em, k)
    /\ ecall' = [NoCall EXCEPT !.ops = ecall.ops + 1]
    /\ elast' = [op |-> "setkey", instr |-> 0]
    /\ UNCHANGED <<epc, charSigned, schedVars, wrapVars>>

EngineNext ==
    \/ EngineCallRun
    \/ EngineStep
    \/ EngineReturn
    \/ EngineReset
    \/ EngineTrap
    \/ EngineSetKey

SpecEngine == EngineInit /\ [][EngineNext]_vars

(***************************************************************************)
(* The blocking wrapper VmState (VmState.h, VmState.cpp): an Lc3C machine  *)
(* and the bit field blocked_.                                             *)
(***************************************************************************)
isBlockedOnInput == 1

isBlockedOnOutput == 2

IsBlocked(v) == v.blocked # 0

SetBlocked(v, flags) == [v EXCEPT !.blocked = BitOr(v.blocked, flags)]

ClearBlocked(v, flags) == [v EXCEPT !.blocked = BitAndNot(v.blocked, flags)]

VmStateSetKey(v, k) == [v EXCEPT !.lc3 = SetKey(v.lc3, k)]

\* The switch of VmState::Run on the trap the machine has run into.
BlockOnTrap(v, state) ==
    IF ~IsTrapped(state) THEN v
    ELSE IF TrapVector(state.trap) \in {TRAP_GETC, TRAP_IN}
         THEN SetBlocked(v, isBlockedOnInput)
    ELSE IF TrapVector(state.trap) \in {TRAP_OUT, TRAP_PUTS, TRAP_PUTSP}
         THEN SetBlocked(v, isBlockedOnOutput)
    ELSE v

\* A plausible slip: a VM found Stopped is reported as not running.
RunResultWhenStopped_False == FALSE

\* What VmState::Run returns for a VM that was Stopped when it was called.
RunResultWhenStopped == TRUE

\* What VmState::Run returns for a VM that was not Stopped, given the state
\* it ended the turn in.
RunResult(state) == ~IsStopped(state)

\* VmState::Run: the wrapper after the call and the value returned, [v, ret],
\* with whether the call invoked the trap handler and whether it called the
\* engine's Run.
VmStateRun(v, cs) ==
    LET state0 == GetState(v.lc3)
    IN  IF ~IsStopped(state0)
        THEN LET fulfil == IsTrapped(state0) /\ ~IsBlocked(v)
                 v1 == IF fulfil
                       THEN [v EXCEPT !.lc3 = Trap(v.lc3, state0.trap, cs)]
                       ELSE v
                 state1 == IF fulfil THEN v1.lc3.state ELSE state0
                 v2 == IF IsRunning(state1)
                       THEN LET ran == Run(v1.lc3, maxTicks)
                            IN  BlockOnTrap([v1 EXCEPT !.lc3 = ran], ran.state)
                       ELSE v1
                 state2 == IF IsRunning(state1) THEN v2.lc3.state ELSE state1
             IN  [v |-> v2, ret |-> RunResult(state2),
                  trapCalled |-> fulfil, ran |-> IsRunning(state1)]
        ELSE [v |-> v, ret |-> RunResultWhenStopped,
              trapCalled |-> FALSE, ran |-> FALSE]

\* The state of the machine of a VmState that has been constructed.  VmState
\* has no constructor and no method that resets lc3_, and the base class
\* lc3::Lc3Core of Lc3C is not part of the sources: if it declares state_ as
\* VmCore does, the variant holds its first alternative, Stopped; the
\* wrapper's state machine is specified to start Running, after a reset.
ConstructedStates == {Stopped, Running}

\* The wrapper as constructed (blocked_{0}, zeroed storage) and given an
\* image through ReadImage.
WrapInit ==
    /\ \E i \in 1..Len(Programs), st \in ConstructedStates :
          ws = [lc3 |-> [ReadImage(NewMachine, ImageFile(PC_START, Programs[i]))
                           EXCEPT !.state = st],
                blocked |-> 0]
    /\ wlast = NoOp("none")
    /\ charSigned \in BOOLEAN
    /\ SchedUnused
    /\ EngineUnused

WrapRun ==
    /\ \E r \in {VmStateRun(ws, charSigned)} :
          /\ ws' = r.v
          /\ wlast' = [op |-> "run", ret |-> r.ret,
                        trapCalled |-> r.trapCalled, ran |-> r.ran]
    /\ UNCHANGED <<charSigned, schedVars, engineVars>>

WrapSetKey ==
    /\ \E k \in Keys \ {KEY_ESC} :
          ws' = VmStateSetKey(ws, k)
    /\ wlast' = NoOp("setkey")
    /\ UNCHANGED <<charSigned, schedVars, engineVars>>

WrapClearBlocked ==
    /\ \E flags \in {isBlockedOnInput, isBlockedOnOutput} :
          ws' = ClearBlocked(ws, flags)
    /\ wlast' = NoOp("clear")
    /\ UNCHANGED <<charSigned, schedVars, engineVars>>

\* SetBlocked is public: the host can set either flag whatever the machine's
\* state is.
WrapSetBlocked ==
    /\ \E flags \in {isBlockedOnInput, isBlockedOnOutput} :
          ws' = SetBlocked(ws, flags)
    /\ wlast' = NoOp("setblocked")
    /\ UNCHANGED <<charSigned, schedVars, engineVars>>

WrapNext == WrapRun \/ WrapSetKey \/ WrapClearBlocked \/ WrapSetBlocked

SpecWrapper == WrapInit /\ [][WrapNext]_vars

(***************************************************************************)
(* Single calls of the machine's methods on chosen machines (SpecCalls).   *)
(* The machine em is built from a case; elast names the call, its          *)
(* argument, the machine before the call and what the call returned.       *)
(***************************************************************************)
\* Register values at the edges of the 16-bit range.
RegValues == {0, 1, 15, 16, 32767, 32768, 65520, 65535}

\* Where the instruction sits: the start of user memory and both ends of
\* the address space.
Pcs == {PC_START, 0, UINT16_MAX}

\* The values cond_ takes: 0 after Reset, then one flag.
CondValues == {0, FLAG_POS, FLAG_ZERO, FLAG_NEG}

\* Instruction words, field by field.
Enc(op, hi, mid, lo) == op * 4096 + hi * 512 + mid * 64 + lo

StepCase(instr, pc, cond, r1, r2, data) ==
    [instr |-> instr, pc |-> pc, cond |-> cond, r1 |-> r1, r2 |-> r2,
     data |-> data]

\* ADD and AND with every 5-bit immediate, DR = R2 or DR = SR1 = R1.
ImmCases ==
    { StepCase(Enc(op, dr, 1, 32 + imm5), PC_START, 0, r1, 0, 0) :
          op \in {OP_ADD, OP_AND}, dr \in {1, 2}, imm5 \in 0..31,
          r1 \in RegValues }

\* ADD R3,R1,R2; AND R3,R1,R2; NOT R3,R1.
RegCases ==
    { StepCase(instr, PC_START, FLAG_ZERO, r1, r2, 0) :
          instr \in {Enc(OP_ADD, 3, 1, 2), Enc(OP_AND, 3, 1, 2),
                     Enc(OP_NOT, 3, 1, 63)},
          r1 \in RegValues, r2 \in {0, 1, 32768, 65535} }

\* LD R4,#2; LDI R4,#1; LEA R4,#-1; the word at pc + 3 is data and the word
\* at pc + 2 points to it.
LoadCases ==
    { StepCase(instr, pc, cond, 0, 0, data) :
          instr \in {Enc(OP_LD, 4, 0, 2), Enc(OP_LDI, 4, 0, 1),
                     Enc(OP_LEA, 4, 7, 63)},
          pc \in Pcs, cond \in {0, FLAG_NEG}, data \in {0, 1, 32768} }

\* LDR R4,R1,#1 and STR R2,R1,#1 with R1 pointing at pc + 2.
BaseCases ==
    { StepCase(instr, pc, FLAG_POS, W16(pc + 2), 32768, data) :
          instr \in {Enc(OP_LDR, 4, 1, 1), Enc(OP_STR, 2, 1, 1)},
          pc \in Pcs, data \in {0, 1, 32768} }

\* BR with every mask and offsets 0, 1, 255, -256 and -1.
BrCases ==
    { StepCase(Enc(OP_BR, mask, off \div 64, off % 64), pc, cond, 7, 0, 0) :
          mask \in 0..7, off \in {0, 1, 255, 256, 511}, pc \in Pcs,
          cond \in CondValues }

\* JMP R1; JSR #1; JSRR R1; ST R1,#2; STI R1,#1; TRAP x21; RTI; reserved.
OtherCases ==
    { StepCase(instr, PC_START, cond, r1, 0, 5) :
          instr \in {Enc(OP_JMP, 0, 1, 0), Enc(OP_JSR, 4, 0, 1),
                     Enc(OP_JSR, 0, 1, 0), Enc(OP_ST, 1, 0, 2),
                     Enc(OP_STI, 1, 0, 1), Enc(OP_TRAP, 0, 0, TRAP_OUT),
                     Enc(OP_RTI, 0, 0, 0), Enc(OP_RES, 0, 0, 0)},
          cond \in CondValues, r1 \in {0, 32768} }

\* JSR with the offsets 0, 1, 1023, -1024 and -1; JSRR with the base
\* registers R1, R2 and R7, with and without the unused bits set.
JsrCases ==
    { StepCase(Enc(OP_JSR, 4 + (off \div 512), (off \div 64) % 8, off % 64),
               pc, cond, 7, 0, 0) :
          off \in {0, 1, 1023, 1024, 2047}, pc \in Pcs, cond \in CondValues }
    \cup
    { StepCase(Enc(OP_JSR, hi, base, lo), pc, cond, r1, 4660, 0) :
          hi \in {0, 3}, base \in {1, 2, 7}, lo \in {0, 63}, pc \in Pcs,
          cond \in {0, FLAG_NEG}, r1 \in {0, 32768, 65535} }

StepCases ==
    ImmCases \cup RegCases \cup LoadCases \cup BaseCases \cup BrCases
        \cup OtherCases \cup JsrCases

\* A reset machine with the case's instruction at pc, a pointer to pc + 3 at
\* pc + 2 and the case's data at pc + 3.
StepMachine(c) ==
    LET m0 == Reset(NewMachine)
        m1 == WriteMem(m0, W16(c.pc + 3), c.data)
        m2 == WriteMem(m1, W16(c.pc + 2), W16(c.pc + 3))
        m3 == WriteMem(m2, c.pc, c.instr)
    IN  [m3 EXCEPT !.pc = c.pc, !.cond = c.cond, !.reg[1] = c.r1,
                   !.reg[2] = c.r2]

NewCall(op, arg, m) ==
    [op |-> op, arg |-> arg, before |-> m, val |-> 0, count |-> 0,
     out |-> <<>>]

\* Trap is called with every low byte, on a machine trapped on the
\* instruction, with and without a pending key.
TrapWords == {Enc(OP_TRAP, 0, 0, 0) + v : v \in 0..255}

TrapKeys == {0, 65, 233, 489}

\* R0 points at the string "Hi" that follows the instruction.
TrapMachine(instr, k) ==
    LET m0 == ReadImage(Reset(NewMachine),
                        ImageFile(PC_START, <<instr, 72, 105>>))
    IN  [m0 EXCEPT !.state = Trapped(instr), !.pc = W16(PC_START + 1),
                   !.reg[0] = PC_START + 1, !.reg[3] = 32768,
                   !.cond = FLAG_NEG, !.key = k]

\* Machines trapped on PUTS or PUTSP whose string has no zero word before
\* the end of memory: "@A" at 0xFFFE, R0 at either word.
OverrunMachine(instr, r0, k) ==
    LET m0 == WriteMem(WriteMem(TrapMachine(instr, k), 65534, 64), 65535, 65)
    IN  [m0 EXCEPT !.reg[0] = r0]

\* Machines Reset is called on: every state, registers, flags and PC set.
ResetMachines ==
    { [ReadImage(NewMachine, ImageFile(PC_START, ProgPuts)) EXCEPT
          !.state = st, !.reg = [r \in Regs |-> v], !.cond = cond,
          !.pc = pc, !.key = k] :
          st \in {Stopped, Running, Trapped(Enc(OP_TRAP, 0, 0, TRAP_HALT))},
          v \in {0, 1, 65535}, cond \in CondValues, pc \in Pcs,
          k \in {0, 65} }

\* Machines ReadMem is called on: the keyboard registers hold old values.
ReadAddresses == {MR_KBSR, MR_KBDR, MR_KBSR + 1, PC_START, 0, UINT16_MAX}

ReadMachines ==
    { [WriteMem(WriteMem(WriteMem(Reset(NewMachine), PC_START, 4660),
                         MR_KBSR, status), MR_KBDR, kbdata)
          EXCEPT !.key = k] :
          status \in {0, 7, 32768}, kbdata \in {0, 66},
          k \in {0, 65, 233, 40000} }

CallsInit ==
    /\ \/ \E c \in StepCases :
             /\ em = StepMachine(c)
             /\ elast = NewCall("step", c.instr, em)
             /\ charSigned = FALSE
       \/ \E instr \in TrapWords, k \in TrapKeys :
             /\ em = TrapMachine(instr, k)
             /\ elast = NewCall("trap", instr, em)
             /\ charSigned \in BOOLEAN
       \/ \E instr \in {Enc(OP_TRAP, 0, 0, TRAP_PUTS),
                         Enc(OP_TRAP, 0, 0, TRAP_PUTSP)},
             r0 \in {65534, 65535}, k \in {0, 66, 16963} :
             /\ em = OverrunMachine(instr, r0, k)
             /\ elast = NewCall("trap", instr, em)
             /\ charSigned = FALSE
       \/ \E m \in ResetMachines :
             /\ em = m
             /\ elast = NewCall("reset", 0, em)
             /\ charSigned = FALSE
       \/ \E m \in ReadMachines, a \in ReadAddresses :
             /\ em = m
             /\ elast = NewCall("read", a, em)
             /\ charSigned = FALSE
    /\ epc = "ready"
    /\ ecall = NoCall
    /\ SchedUnused
    /\ WrapUnused

\* Run(1): one instruction.
CallStep ==
    /\ epc = "ready" /\ elast.op = "step"
    /\ em' = Run(em, 1)
    /\ elast' = [elast EXCEPT !.count = 1]
    /\ epc' = "done"
    /\ UNCHANGED <<ecall, charSigned, schedVars, wrapVars>>

\* Trap; out is what the call wrote to stdout.
CallTrap ==
    /\ epc = "ready" /\ elast.op = "trap"
    /\ em' = Trap(em, elast.arg, charSigned)
    /\ \E bytes \in TrapOutputs(em, elast.arg) :
          elast' = [elast EXCEPT !.count = 1, !.val = em'.state,
                                 !.out = bytes]
    /\ epc' = "done"
    /\ UNCHANGED <<ecall, charSigned, schedVars, wrapVars>>

\* Reset, and Reset again; val is the machine after the first Reset.
CallReset ==
    /\ elast.op = "reset" /\ elast.count < 2
    /\ em' = Reset(em)
    /\ elast' = [elast EXCEPT !.count = elast.count + 1,
                              !.val = IF elast.count = 0 THEN em' ELSE elast.val]
    /\ epc' = "done"
    /\ UNCHANGED <<ecall, charSigned, schedVars, wrapVars>>

CallReadMem ==
    /\ epc = "ready" /\ elast.op = "read"
    /\ \E r \in {ReadMem(em, elast.arg)} :
          /\ em' = r.m
          /\ elast' = [elast EXCEPT !.count = 1, !.val = r.val]
    /\ epc' = "done"
    /\ UNCHANGED <<ecall, charSigned, schedVars, wrapVars>>

CallsNext == CallStep \/ CallTrap \/ CallReset \/ CallReadMem

SpecCalls == CallsInit /\ [][CallsNext]_vars

(***************************************************************************)
(* Single calls of ReadImage on chosen image files (SpecImage).  elast     *)
(* names the file by its origin and its number of words.                   *)
(***************************************************************************)
\* Short images are loaded with up to this many words.
MaxWords == 4

\* The addresses at which the long images hold a non-zero word: the words
\* next to the keyboard status register and at the end of memory.
MarkedAddresses == {MR_KBSR - 1, MR_KBSR, UINT16_MAX - 1, UINT16_MAX}

\* The k-th word, k from 1, of the test image for origin: its first MaxWords
\* + 1 words and the words for the marked addresses are not 0, and their two
\* bytes differ.
ImageWord(origin, k) ==
    IF k <= MaxWords + 1 \/ (origin + k) - 1 \in MarkedAddresses
    THEN ((k * 257 + 4660) % UINT16_MAX) + 1
    ELSE 0

ImageWords(origin, n) == [k \in 1..n |-> ImageWord(origin, k)]

\* Short images at the start of user memory, below the keyboard status
\* register, at the bottom and at the top of the address space.
ShortImages ==
    { [origin |-> o, n |-> n] :
          o \in {PC_START, 0, MR_KBSR - 1, UINT16_MAX - 2, UINT16_MAX - 1,
                 UINT16_MAX},
          n \in 0..MaxWords }

\* Images at the start of user memory that end at the keyboard status
\* register and at the last word of memory.
LongImages ==
    { [origin |-> PC_START, n |-> (a - PC_START) + 1] :
          a \in {MR_KBSR, UINT16_MAX} }

\* The machines an image is read into: a new one, and one whose memory
\* holds words of an earlier load.
ImageMachines ==
    { NewMachine,
      WriteMem(WriteMem(WriteMem(WriteMem(NewMachine, 0, 7), PC_START - 1, 5),
                        PC_START + 100, 6), UINT16_MAX, 9) }

ImageInit ==
    /\ \E img \in ShortImages \cup LongImages, m \in ImageMachines :
          /\ em = m
          /\ elast = NewCall("image", img, em)
    /\ charSigned = FALSE
    /\ epc = "ready"
    /\ ecall = NoCall
    /\ SchedUnused
    /\ WrapUnused

CallReadImage ==
    /\ epc = "ready" /\ elast.op = "image"
    /\ em' = ReadImage(em, ImageFile(elast.arg.origin,
                                     ImageWords(elast.arg.origin, elast.arg.n)))
    /\ elast' = [elast EXCEPT !.count = 1]
    /\ epc' = "done"
    /\ UNCHANGED <<ecall, charSigned, schedVars, wrapVars>>

ImageNext == CallReadImage

SpecImage == ImageInit /\ [][ImageNext]_vars

(***************************************************************************)
(* Properties of the engine and of the trap handler (SpecEngine).          *)
(***************************************************************************)
\* C1 (as stated): once a machine is Stopped, nothing but Reset changes its
\* state away from Stopped: not Run, not a call of the trap handler, not a
\* turn of the blocking wrapper, not a scheduler round.
C1_StoppedIsTerminal ==
    [][ /\ (IsStopped(em.state) /\ elast'.op # "reset") => IsStopped(em'.state)
        /\ IsStopped(ws.lc3.state) => IsStopped(ws'.lc3.state)
        /\ \A i \in DOMAIN vms :
              IsStopped(vms[i].lc3.state) => IsStopped(vms'[i].lc3.state) ]_vars

\* C2: an iteration of Run's loop starts from Running; it ends Trapped exactly
\* when the top four bits of the fetched word are the TRAP opcode, Stopped
\* exactly when they are the reserved or the RTI opcode, and Running for every
\* other opcode; and nothing but such an iteration makes a machine Trapped.
C2_EngineTransitions ==
    [][ /\ elast'.op = "step" =>
              LET op == Shr(elast'.instr, 12)
              IN  /\ IsRunning(em.state)
                  /\ IsTrapped(em'.state) <=> (op = OP_TRAP)
                  /\ IsStopped(em'.state) <=> (op \in {OP_RES, OP_RTI})
                  /\ IsRunning(em'.state) <=> (op \notin {OP_TRAP, OP_RES, OP_RTI})
        /\ (IsTrapped(em'.state) /\ em'.state # em.state) => elast'.op = "step"
      ]_vars

\* C2 witness: an iteration has fetched an RTI instruction and stopped the machine.
C2_Witness ==
    /\ elast.op = "step"
    /\ Shr(elast.instr, 12) = OP_RTI
    /\ IsStopped(em.state)

\* C3 (as stated): executing TRAP leaves the state Trapped carrying the low 8
\* bits of the fetched word, and apart from the PC increment nothing changes.
C3_TrapCarriesLowByte ==
    [][ (elast'.op = "step" /\ Shr(elast'.instr, 12) = OP_TRAP) =>
            /\ em'.state = Trapped(elast'.instr % 256)
            /\ em'.pc = W16(em.pc + 1)
            /\ em'.reg = em.reg /\ em'.cond = em.cond
            /\ em'.mem = em.mem /\ em'.key = em.key ]_vars

\* The number of instructions up to and including the first that leaves
\* Running, counted as far as fuel + 1.
RECURSIVE LeaveCount(_, _)
LeaveCount(m, fuel) ==
    IF ~IsRunning(m.state) THEN 0
    ELSE IF fuel = 0 THEN 1
    ELSE 1 + LeaveCount(Step(m), fuel - 1)

\* C4: when Run(budget) returns, it has executed min(budget, k) instructions
\* for budget >= 0, k being the number of instructions up to and including
\* the first that leaves Running, and the machine is the one Run computes;
\* Run(0) and a call on a machine that is not Running execute nothing and
\* change nothing; a call with a negative budget executes k instructions and
\* returns with the state not Running.
C4_StepBudget ==
    (epc = "idle" /\ elast.op = "return") =>
        LET b == ecall.budget
            s == ecall.start
        IN  /\ b >= 0 => /\ ecall.executed = Min(b, LeaveCount(s, b))
                         /\ em = Run(s, b)
            /\ b = 0 => (ecall.executed = 0 /\ em = s)
            /\ ~IsRunning(s.state) => (ecall.executed = 0 /\ em = s)
            /\ b < 0 => /\ ~IsRunning(em.state)
                        /\ ecall.executed = LeaveCount(s, MaxExecuted)

\* C4 witness: Run(2) has returned after two instructions with the machine
\* still Running, and the third would have been a TRAP.
C4_Witness ==
    /\ epc = "idle" /\ elast.op = "return"
    /\ ecall.budget = 2 /\ ecall.executed = 2
    /\ IsRunning(em.state)
    /\ LeaveCount(em, 1) = 1

(***************************************************************************)
(* Properties of the scheduler of main (Spec).                             *)
(***************************************************************************)
TrappedOnInput(vm) == IsTrapped(vm.lc3.state) /\ IsInputTrap(vm.lc3.state.trap)

TrappedOnOutput(vm) == IsTrapped(vm.lc3.state) /\ IsOutputTrap(vm.lc3.state.trap)

\* C5 (as stated): a VM trapped on GETC or IN with no pending key is blocked
\* on input, and as long as no key is delivered its trap is not fulfilled and
\* its registers do not change.
C5_InputTrapWaitsForKey ==
    [][ \A i \in DOMAIN vms :
          (TrappedOnInput(vms[i]) /\ vms[i].lc3.key = 0 /\ key = 0) =>
              /\ vms[i].isBlockedOnInput
              /\ vms'[i].lc3.reg = vms[i].lc3.reg
              /\ vms'[i].lc3.state = vms[i].lc3.state ]_vars

\* C6: when the key polled is [Esc] the owner index becomes (owner + 1) mod
\* the number of VMs, the key is discarded and no VM changes; the owner
\* changes in no other way; [Esc] is never held for delivery nor found in a
\* pending-key slot; the scheduler gives up a key only in the turn of the
\* owner, and a pending-key slot takes a new non-zero value only if it is the
\* owner's slot and the value is the key the scheduler held.
C6_ConsoleCycling ==
    [][ /\ (mpc = "poll" /\ polled' = KEY_ESC) =>
              /\ consoleOwner' = (consoleOwner + 1) % NumVms
              /\ key' = 0
              /\ vms' = vms
        /\ consoleOwner' # consoleOwner => (mpc = "poll" /\ polled' = KEY_ESC)
        /\ key' # KEY_ESC
        /\ (key # 0 /\ key' # key) =>
              (mpc = "turn" /\ index = consoleOwner /\ key' = 0)
        /\ \A i \in DOMAIN vms :
              /\ vms'[i].lc3.key # KEY_ESC
              /\ vms'[i].lc3.key \notin {0, vms[i].lc3.key} =>
                    (i = consoleOwner /\ i = index /\ vms'[i].lc3.key = key)
      ]_vars

\* C6 witness: ownership has been cycled to VM 1 and an ordinary key pressed
\* afterwards sits in VM 1's pending-key slot, VM 0's slot being empty.
C6_Witness ==
    /\ mpc = "turn" /\ consoleOwner = 1
    /\ vms[1].lc3.key = 233
    /\ vms[0].lc3.key = 0
    /\ key = 0

\* C7: a VM trapped on OUT, PUTS or PUTSP changes only in its own turn and
\* only while it owns the console, and then by the trap handler being called
\* for its trap; while it is not the owner its registers, PC, memory, state
\* and blocked flags stay as they are; and the trap handler is only ever
\* called for the console owner.
C7_OutputSerialized ==
    [][ /\ \A i \in DOMAIN vms :
              TrappedOnOutput(vms[i]) =>
                  /\ i # consoleOwner => vms'[i] = vms[i]
                  /\ vms'[i] # vms[i] =>
                        /\ mpc = "turn" /\ index = i /\ consoleOwner = i
                        /\ console'.writer = i
                        /\ console'.instr = vms[i].lc3.state.trap
                        /\ console'.bytes \in TrapOutputs(
                               IF key # 0 THEN SetKey(vms[i].lc3, key)
                               ELSE vms[i].lc3,
                               vms[i].lc3.state.trap)
        /\ console'.writer # -1 => console'.writer = consoleOwner
      ]_vars

\* C7 witness: VM 0 is parked on an output trap while VM 1, the owner, has had
\* an output trap of its own fulfilled.
C7_Witness ==
    /\ consoleOwner = 1
    /\ TrappedOnOutput(vms[0]) /\ vms[0].isBlockedOnOutput
    /\ console.writer = 1 /\ IsOutputTrap(console.instr)
    /\ console.bytes # <<>>

Live == {i \in DOMAIN vms : ~IsStopped(vms[i].lc3.state)}

\* C8: running always equals the number of VMs that are not Stopped; a step
\* lowers it by exactly the number of VMs that become Stopped in that step
\* (one VM, in its own turn); the loop is left only when every VM is Stopped
\* and is entered again only while some VM is not.
C8_LiveAccounting ==
    /\ [](running = Cardinality(Live))
    /\ [](mpc = "done" => Live = {})
    /\ [](mpc = "poll" => Live # {})
    /\ [][ /\ running' =
                running - Cardinality({i \in DOMAIN vms :
                                         /\ ~IsStopped(vms[i].lc3.state)
                                         /\ IsStopped(vms'[i].lc3.state)})
           /\ running' # running => (mpc = "turn" /\ running' = running - 1
                                      /\ IsStopped(vms'[index].lc3.state))
         ]_vars

\* C8 witness: a round has ended with VM 0 Stopped and counted out, VM 1 live.
C8_Witness ==
    /\ mpc = "poll"
    /\ running = NumVms - 1
    /\ IsStopped(vms[0].lc3.state)
    /\ ~IsStopped(vms[1].lc3.state)

\* C10: a VM that is trapped on output and does not own the console stays
\* exactly as it is, stays a non-owner and keeps the scheduler's loop from
\* ending, through every step in which [Esc] is not polled; meanwhile the
\* owner is never parked: in its turn a trapped owner has its trap fulfilled.
C10_Starvation ==
    [][ /\ \A i \in DOMAIN vms :
              (TrappedOnOutput(vms[i]) /\ i # consoleOwner /\ polled' # KEY_ESC) =>
                  /\ vms'[i] = vms[i]
                  /\ TrappedOnOutput(vms'[i])
                  /\ i # consoleOwner'
                  /\ mpc' # "done"
        /\ (mpc = "turn" /\ index = consoleOwner /\ index < NumVms
              /\ IsTrapped(vms[index].lc3.state)) =>
                  /\ console'.writer = index
                  /\ console'.instr = vms[index].lc3.state.trap
      ]_vars

\* C10 witness: no key has been polled in this round, VM 1 sits trapped on
\* output without the console, and VM 0, the owner, is Running.
C10_Witness ==
    /\ mpc = "turn" /\ index = NumVms
    /\ consoleOwner = 0 /\ polled = 0 /\ key = 0
    /\ TrappedOnOutput(vms[1]) /\ vms[1].isBlockedOnOutput
    /\ IsRunning(vms[0].lc3.state)
    /\ console.writer = -1

(***************************************************************************)
(* Properties of the blocking wrapper (SpecWrapper).                       *)
(***************************************************************************)
\* C9 (as stated): a turn on a Stopped VM changes nothing and reports "not
\* running" (false); a turn reports "still alive" (true) if and only if the
\* state at the end of the turn is not Stopped.
C9_TurnReportsAlive ==
    [][ wlast'.op = "run" =>
            /\ IsStopped(ws.lc3.state) => (ws' = ws /\ wlast'.ret = FALSE)
            /\ wlast'.ret <=> ~IsStopped(ws'.lc3.state) ]_vars

\* C9 (amended): a turn on a Stopped VM changes nothing and returns true; a
\* turn on a VM that is not Stopped returns true if and only if the state at
\* the end of the turn is not Stopped.  So false is returned only by the turn
\* in which the VM becomes Stopped.
C9_TurnReportsStopOnce ==
    [][ wlast'.op = "run" =>
            /\ IsStopped(ws.lc3.state) => (ws' = ws /\ wlast'.ret = TRUE)
            /\ ~IsStopped(ws.lc3.state) =>
                  (wlast'.ret <=> ~IsStopped(ws'.lc3.state))
            /\ ~wlast'.ret =>
                  (~IsStopped(ws.lc3.state) /\ IsStopped(ws'.lc3.state)) ]_vars

\* C9 witness: a turn on a VM that a reserved opcode had already Stopped has
\* returned true.
C9_Witness ==
    /\ wlast.op = "run" /\ wlast.ret = TRUE
    /\ IsStopped(ws.lc3.state)
    /\ ws.lc3.reg[0] # 0

(***************************************************************************)
(* Properties of single calls (SpecCalls).                                 *)
(***************************************************************************)
StepDone == epc = "done" /\ elast.op = "step"

\* The flag that stands for the sign of a 16-bit word.
FlagOf(word) ==
    IF word = 0 THEN FLAG_ZERO
    ELSE IF word >= 32768 THEN FLAG_NEG
    ELSE FLAG_POS

\* The flags set in a value of cond_.
FlagsSet(cond) == {f \in {FLAG_POS, FLAG_ZERO, FLAG_NEG} : BitAnd(cond, f) # 0}

\* C11: after ADD, AND, NOT, LD, LDI, LDR or LEA exactly one condition flag
\* is set: ZERO if the destination register is 0, NEGATIVE if its bit 15 is
\* set, POSITIVE otherwise; BR, JMP, JSR/JSRR, ST, STI, STR and TRAP leave
\* the flags as they were.
C11_FlagsFollowResult ==
    StepDone =>
        LET op == elast.arg \div 4096
            dr == (elast.arg \div 512) % 8
        IN  /\ op \in {OP_ADD, OP_AND, OP_NOT, OP_LD, OP_LDI, OP_LDR, OP_LEA} =>
                  /\ Cardinality(FlagsSet(em.cond)) = 1
                  /\ em.cond = FlagOf(em.reg[dr])
            /\ op \in {OP_BR, OP_JMP, OP_JSR, OP_ST, OP_STI, OP_STR, OP_TRAP} =>
                  em.cond = elast.before.cond

\* C11 witness: LDI has loaded 0x8000 into R4 of a machine whose flags were
\* all clear, and NEGATIVE is set.
C11_Witness ==
    /\ StepDone
    /\ elast.arg \div 4096 = OP_LDI
    /\ elast.before.cond = 0
    /\ em.reg[4] = 32768
    /\ em.cond = FLAG_NEG

\* C12: ADD and AND in immediate form put (SR1 op sign_extend(imm5)) mod
\* 2^16 into DR, for every 5-bit immediate and every value of SR1; the
\* immediates 16..31 stand for 0xFFF0..0xFFFF; the flags are those of the
\* 16-bit result read as a signed number.
C12_ImmediateArithmetic ==
    StepDone =>
        LET op == elast.arg \div 4096
            dr == (elast.arg \div 512) % 8
            sr1 == (elast.arg \div 64) % 8
            imm5 == elast.arg % 32
            sext == IF imm5 >= 16 THEN 65504 + imm5 ELSE imm5
            a == elast.before.reg[sr1]
            expected == IF op = OP_ADD THEN (a + sext) % 65536
                        ELSE BitAnd(a, sext)
        IN  (op \in {OP_ADD, OP_AND} /\ (elast.arg \div 32) % 2 = 1) =>
                /\ em.reg[dr] = expected
                /\ imm5 >= 16 => sext \in 65520..65535
                /\ em.cond = FlagOf(expected)
                /\ \A r \in Regs \ {dr} : em.reg[r] = elast.before.reg[r]

\* C12 witness: ADD R2,R1,#-16 with R1 = 16 has wrapped to 0 and set ZERO.
C12_Witness ==
    /\ StepDone
    /\ elast.arg = Enc(OP_ADD, 2, 1, 32 + 16)
    /\ elast.before.reg[1] = 16
    /\ em.reg[2] = 0
    /\ em.cond = FLAG_ZERO

\* C13: BR with mask 0 is taken whatever the flags are, all clear included;
\* with a non-zero mask it is taken iff mask and flags share a bit; taken, PC
\* is (PC after the fetch + sign_extend(offset9)) mod 2^16, not taken it is
\* the PC after the fetch; nothing else of the machine changes.
C13_BranchSemantics ==
    StepDone =>
        LET mask == (elast.arg \div 512) % 8
            off9 == elast.arg % 512
            sext == IF off9 >= 256 THEN 65024 + off9 ELSE off9
            fetched == (elast.before.pc + 1) % 65536
            taken == mask = 0 \/ FlagsSet(mask) \cap FlagsSet(elast.before.cond) # {}
        IN  elast.arg \div 4096 = OP_BR =>
                em = [elast.before EXCEPT
                        !.pc = IF taken THEN (fetched + sext) % 65536
                               ELSE fetched]

\* C13 witness: BR #-256 with an empty mask, at 0xFFFF of a machine whose
\* flags are all clear, has wrapped through 0 to 0xFF00.
C13_Witness ==
    /\ StepDone
    /\ elast.arg = Enc(OP_BR, 0, 4, 0)
    /\ elast.before.pc = UINT16_MAX
    /\ elast.before.cond = 0
    /\ em.pc = 65280

TrapDone == epc = "done" /\ elast.op = "trap"

\* C14: Trap returns Running for every vector but HALT (0x25), for which it
\* returns Stopped; a vector outside 0x20..0x25 leaves registers and memory
\* as they were; GETC and IN change only R0 and the pending key; OUT, PUTS
\* and PUTSP change no register and no memory word.
C14_TrapResult ==
    TrapDone =>
        LET v == elast.arg % 256
            before == elast.before
        IN  /\ elast.val = em.state
            /\ em.state = IF v = 37 THEN Stopped ELSE Running
            /\ v \notin 32..37 => em = [before EXCEPT !.state = Running]
            /\ v \in {32, 35} =>
                  em = [before EXCEPT !.state = Running,
                                      !.reg[0] = em.reg[0], !.key = em.key]
            /\ v \in {33, 34, 36, 37} =>
                  /\ em.reg = before.reg
                  /\ em.mem = before.mem

\* C14 witness: Trap called with the vector 0xFF on a machine trapped with a
\* key pending has returned Running and left the key where it was.
C14_Witness ==
    /\ TrapDone
    /\ elast.arg = Enc(OP_TRAP, 0, 0, 255)
    /\ IsTrapped(elast.before.state)
    /\ IsRunning(elast.val)
    /\ em.key = 233

\* C15: from any state Reset gives registers 0, flags 0, PC 0x3000 and state
\* Running, and does not touch memory; a second Reset gives the registers,
\* flags, PC and state of the first.
C15_ResetIdempotent ==
    (elast.op = "reset" /\ elast.count >= 1) =>
        /\ \A r \in 0..7 : em.reg[r] = 0
        /\ em.cond = 0
        /\ em.pc = 12288
        /\ em.state = Running
        /\ em.mem = elast.before.mem
        /\ elast.count = 2 =>
              /\ em.reg = elast.val.reg
              /\ em.cond = elast.val.cond
              /\ em.pc = elast.val.pc
              /\ em.state = elast.val.state

\* C15 witness: Reset has been called twice on a machine that was Stopped
\* with registers 0xFFFF, flags N and PC 0, and whose memory holds a program.
C15_Witness ==
    /\ elast.op = "reset" /\ elast.count = 2
    /\ IsStopped(elast.before.state)
    /\ elast.before.reg[0] = 65535
    /\ elast.before.cond = FLAG_NEG
    /\ elast.before.pc = 0
    /\ MemAt(em.mem, PC_START) # 0

ReadDone == epc = "done" /\ elast.op = "read"

\* C17: a read of 0xFE00 with a pending key k # 0 stores k at 0xFE02, empties
\* the pending-key slot and returns a status word with bit 15 set; with no
\* pending key it returns 0 and leaves the word at 0xFE02 as it was; a read
\* of any other address returns the stored word and changes neither memory
\* nor the pending key.
C17_KeyboardStatus ==
    ReadDone =>
        LET before == elast.before
        IN  /\ (elast.arg = 65024 /\ before.key # 0) =>
                  /\ MemAt(em.mem, 65026) = before.key
                  /\ em.key = 0
                  /\ (elast.val \div 32768) % 2 = 1
            /\ (elast.arg = 65024 /\ before.key = 0) =>
                  /\ elast.val = 0
                  /\ MemAt(em.mem, 65026) = MemAt(before.mem, 65026)
                  /\ em.key = 0
            /\ elast.arg # 65024 =>
                  /\ elast.val = MemAt(before.mem, elast.arg)
                  /\ em = before
            /\ em.reg = before.reg /\ em.pc = before.pc
            /\ em.cond = before.cond /\ em.state = before.state

\* C17 witness: the status register has been read with the key 40000
\* pending and an older key, 66, in the data register.
C17_Witness ==
    /\ ReadDone
    /\ elast.arg = MR_KBSR
    /\ elast.before.key = 40000
    /\ MemAt(elast.before.mem, MR_KBDR) = 66
    /\ MemAt(em.mem, MR_KBDR) = 40000
    /\ elast.val = 32768

ImageDone == epc = "done" /\ elast.op = "image"

\* The addresses below origin at which memory held or holds a word.
Below(origin) ==
    {a \in (DOMAIN em.mem) \cup (DOMAIN elast.before.mem) : a < origin}

\* The addresses from origin + n on at which memory held or holds a word.
Beyond(origin, n) ==
    {a \in (DOMAIN em.mem) \cup (DOMAIN elast.before.mem) : a >= origin + n}

\* C18 (as stated): an image with origin o is accepted up to 65536 - o words,
\* so a long enough image fills o through 0xFFFF; no word is written below o.
C18_ImageCapacity ==
    ImageDone =>
        LET o == elast.arg.origin
            accepted == Min(elast.arg.n, 65536 - o)
        IN  /\ \A k \in 0..(accepted - 1) :
                  MemAt(em.mem, o + k) = ImageWord(o, k + 1)
            /\ \A a \in Below(o) : MemAt(em.mem, a) = MemAt(elast.before.mem, a)

\* C19 (as stated): after loading origin 0x3000 followed by N words, a read
\* of 0x3000 + k returns the k-th word for every k < N, and every word
\* outside 0x3000..0x3000+N-1 is as it was.
C19_RoundTrip ==
    (ImageDone /\ elast.arg.origin = 12288) =>
        /\ \A k \in 0..(elast.arg.n - 1) :
              ReadMem(em, 12288 + k).val = ImageWord(12288, k + 1)
        /\ \A a \in Below(12288) \cup Beyond(12288, elast.arg.n) :
              MemAt(em.mem, a) = MemAt(elast.before.mem, a)

(***************************************************************************)
(* Further properties of the scheduler (Spec).                             *)
(***************************************************************************)
\* C16: the turn of one VM leaves every other VM exactly as it is
\* (registers, PC, flags, memory, pending key, state, blocked flags), and
\* polling the keyboard or ending a round changes no VM; a turn does not
\* move console ownership, and of the key it can only consume it.
C16_InstanceIsolation ==
    [][ /\ \A j \in DOMAIN vms :
              (mpc # "turn" \/ j # index) => vms'[j] = vms[j]
        /\ mpc = "turn" =>
              /\ consoleOwner' = consoleOwner
              /\ key' \in {key, 0}
      ]_vars

\* C16 witness: VM 0 has consumed a key and had a trap fulfilled in its turn
\* while VM 1, running the same program, still waits at its first trap with
\* an empty key slot.
C16_Witness ==
    /\ mpc = "turn" /\ index = 1
    /\ console.writer = 0
    /\ vms[0].lc3.mem = vms[1].lc3.mem
    /\ vms[0].lc3.reg[0] = 233
    /\ vms[1].lc3.reg[0] = 1
    /\ TrappedOnInput(vms[1]) /\ vms[1].lc3.key = 0

\* C20 (as stated): at the start of every scheduler round no VM has
\* blocked-on-input and blocked-on-output set together.
C20_NeverBothBlocked ==
    mpc = "poll" =>
        \A i \in DOMAIN vms :
            ~(vms[i].isBlockedOnInput /\ vms[i].isBlockedOnOutput)

\* C21: every round consumes the key it polled, whatever the state of the
\* owner's machine: the cycle key moves ownership in the poll itself and any
\* other key is handed to the owner during the round, so no key is left in
\* main's slot when the next round starts and the keyboard is polled again.
C21_KeyConsumedInRound ==
    mpc = "poll" => key = 0

\* The engine of VM i became Trapped in the turn from vm to after: it was
\* Trapped afterwards and Run was called, which main does for a VM that was
\* Running and for a trapped owner once its trap is fulfilled.
BecameTrapped(vm, after, isOwner) ==
    /\ IsTrapped(after.lc3.state)
    /\ IsRunning(vm.lc3.state) \/ FulfilsTrap(vm.lc3.state, isOwner)

\* C22: in the turn in which a VM's engine becomes Trapped, the turn sets
\* the blocked-on-input flag and no other for GETC and IN, the
\* blocked-on-output flag and no other for OUT, PUTS and PUTSP, and no flag
\* for HALT or any other vector; and a VM that is Trapped on HALT when its
\* turn starts is Stopped when the turn ends, whether or not it owns the
\* console.
C22_ClassifyAndHalt ==
    [][ (mpc = "turn" /\ index < NumVms) =>
          LET vm == vms[index]
              after == vms'[index]
              trap == after.lc3.state.trap
              setIn == after.isBlockedOnInput /\ ~vm.isBlockedOnInput
              setOut == after.isBlockedOnOutput /\ ~vm.isBlockedOnOutput
          IN  /\ BecameTrapped(vm, after, index = consoleOwner) =>
                    /\ IsInputTrap(trap) =>
                          (after.isBlockedOnInput /\ ~setOut)
                    /\ IsOutputTrap(trap) =>
                          (after.isBlockedOnOutput /\ ~setIn)
                    /\ (~IsInputTrap(trap) /\ ~IsOutputTrap(trap)) =>
                          (~setIn /\ ~setOut)
              /\ (IsTrapped(vm.lc3.state)
                    /\ TrapVector(vm.lc3.state.trap) = TRAP_HALT) =>
                    IsStopped(after.lc3.state) ]_vars

\* C23: the console owner is not held on output: if the VM whose turn it is
\* owns the console, is Trapped on OUT, PUTS or PUTSP and is not blocked on
\* input, then in that turn the trap handler is called for its trap, the
\* handler returns Running, and Run is called on the machine the handler has
\* left: the VM executes the instruction after the trap and goes on for the
\* rest of the turn's budget.  The owner is the one named by consoleOwner
\* once the round's poll is over.
C23_OwnerOutputFulfilled ==
    [][ (/\ mpc = "turn" /\ index < NumVms /\ index = consoleOwner
         /\ TrappedOnOutput(vms[index])
         /\ ~vms[index].isBlockedOnInput) =>
          LET vm == vms[index]
              trap == vm.lc3.state.trap
              given == IF key # 0 THEN SetKey(vm.lc3, key) ELSE vm.lc3
              resumed == Trap(given, trap, charSigned)
          IN  /\ console'.writer = index
              /\ console'.instr = trap
              /\ IsRunning(resumed.state)
              /\ vms'[index].lc3 = Run(Step(resumed), maxTicks - 1) ]_vars

\* C23 witness: VM 0, the owner, was Trapped on PUTS; in the turn just taken
\* its trap was fulfilled and it went on to the reserved opcode that follows,
\* which stopped it.
C23_Witness ==
    /\ mpc = "turn" /\ index = 1 /\ consoleOwner = 0
    /\ console.writer = 0 /\ console.instr = 61474
    /\ console.bytes = <<72, 105>>
    /\ ~vms[0].isBlockedOnInput
    /\ IsStopped(vms[0].lc3.state) /\ vms[0].lc3.pc = 12291

(***************************************************************************)
(* Further properties of single calls (SpecCalls).                         *)
(***************************************************************************)
\* The 11-bit offset of a JSR as a signed number.
SignedOffset11(instr) ==
    IF instr % 2048 >= 1024 THEN (instr % 2048) - 2048 ELSE instr % 2048

\* C24: JSR and JSRR write the incremented PC to R7 first and set PC
\* afterwards: with bit 11 set, to the incremented PC plus the sign-extended
\* 11-bit offset, mod 2^16; with bit 11 clear, to the base register as it
\* reads after the link, so that JSRR R7 leaves PC at the return address.
\* The flags, the other registers and memory stay as they were, and the
\* machine is still Running.
C24_JsrLinksFirst ==
    (StepDone /\ elast.arg \div 4096 = OP_JSR) =>
        LET before == elast.before
            instr == elast.arg
            ret == (before.pc + 1) % WordMod
            base == (instr \div 64) % 8
        IN  /\ em.reg[7] = ret
            /\ (instr \div 2048) % 2 = 1 =>
                  em.pc = (ret + SignedOffset11(instr) + WordMod) % WordMod
            /\ (instr \div 2048) % 2 = 0 =>
                  em.pc = IF base = 7 THEN ret ELSE before.reg[base]
            /\ \A r \in 0..6 : em.reg[r] = before.reg[r]
            /\ em.cond = before.cond
            /\ em.mem = before.mem
            /\ IsRunning(em.state)

\* C24 witness: JSRR R7 at 0x3000 with R7 = 0 before: PC and R7 are both
\* 0x3001 afterwards.
C24_Witness ==
    /\ StepDone
    /\ elast.arg = 16832
    /\ elast.before.pc = 12288 /\ elast.before.reg[7] = 0
    /\ em.pc = 12289 /\ em.reg[7] = 12289

(***************************************************************************)
(* Further properties of the blocking wrapper (SpecWrapper).               *)
(***************************************************************************)
\* The flags of blocked_ agree with the machine: a flag is set only on a
\* machine that is Trapped on a vector of the flag's class.
FlagsMatchTrap(v) ==
    /\ IsBlocked(v) => IsTrapped(v.lc3.state)
    /\ BitAnd(v.blocked, isBlockedOnInput) # 0 => IsInputTrap(v.lc3.state.trap)
    /\ BitAnd(v.blocked, isBlockedOnOutput) # 0 => IsOutputTrap(v.lc3.state.trap)

\* C25: whenever a blocked flag of the wrapper is set, its machine is
\* Trapped on a vector of the flag's class (GETC or IN for blocked-on-input,
\* OUT, PUTS or PUTSP for blocked-on-output); and a turn taken while a flag
\* is set invokes no trap handler, runs no engine and leaves the wrapper as
\* it was.
C25_BlockedMeansParked ==
    [][ /\ FlagsMatchTrap(ws')
        /\ (wlast'.op = "run" /\ ws.blocked # 0) =>
              (~wlast'.trapCalled /\ ~wlast'.ran /\ ws' = ws) ]_vars

====
